---------------------------- MODULE Spec2Model ----------------------------
(***************************************************************************)
(* sploitlib: the process-wide configuration object (config.py) and the    *)
(* two requests.Session subclasses with the per-request connection pools   *)
(* (http.py).                                                              *)
(*                                                                         *)
(* Python values are written as strings: None is "None", the booleans of   *)
(* an Optional[bool] are "True"/"False", the Default() marker is           *)
(* "default", urllib3's SKIP_HEADER is its own literal.  A dictionary key  *)
(* that is not present reads as Absent.                                    *)
(***************************************************************************)
EXTENDS Naturals, Sequences, FiniteSets

VARIABLES
    cfg,        \* the Config instances: "sploitcfg" (the module singleton) and one more
    sessions,   \* the sessions constructed so far, in order of construction
    conns,      \* the open connections, by id; a closed connection is gone
    opened,     \* how many connections have been opened so far: the ids 1..opened
    uaState,    \* position of the caller-supplied rotating user agent function
    result      \* the operation that has just returned: its inputs and what it did

vars == <<cfg, sessions, conns, opened, uaState, result>>

\* ------------------------------------------------------------- bounds
MaxSessions == 1
MaxConns == 2

\* ------------------------------------------------------------- values
None == "None"
PyTrue == "True"
PyFalse == "False"
Absent == "<absent>"

\* config.py: the marker object; compared by identity, so equal to nothing else
default == "default"

SKIP_HEADER == "@@@SKIP_HEADER@@@"

Instances == {"sploitcfg", "other"}
Schemes == {"http", "https"}
HeaderNames == {"User-Agent", "Connection", "X-Cache-Auth-Key", "X-Cache-Duration"}

\* what requests.utils.default_headers() puts on a new session
DefaultUserAgentString == "python-requests/x.y"

\* the user agent callables: the two static methods and a caller-written one
RotatingUA == "rotating"
RotatingValues == <<"agent-0", "agent-1", SKIP_HEADER>>

\* values the owner of the configuration may store in each field
CfgFieldValues(f) ==
    CASE f = "session_per_request_conn" -> {default, PyTrue, PyFalse}
      [] f = "session_user_agent" -> {default, "UserAgent.none", RotatingUA}
      [] f = "cache_proxy_url" -> {None, "http://cfg-cache:8080"}
      [] f = "cache_auth_key" -> {None, "cfg-key"}
      [] f = "cache_duration" -> {None, "10s"}

ConfigFields ==
    {"session_per_request_conn", "session_user_agent",
     "cache_proxy_url", "cache_auth_key", "cache_duration"}

\* explicit constructor arguments
ArgPerRequestConn == {None, PyTrue, PyFalse}
ArgUserAgent == {None, "UserAgent.none", RotatingUA}
ArgProxyURL == {None, "http://cache:8080"}
ArgAuthKey == {None, "k1"}
ArgDuration == {None, "5m"}

\* ------------------------------------------------------------- config.py
\* Config(): the dataclass defaults
ConfigNew ==
    [session_per_request_conn |-> default,
     session_user_agent |-> default,
     cache_proxy_url |-> None,
     cache_auth_key |-> None,
     cache_duration |-> None]

\* Config.set with a selective merge: a field of cfg2 that is unset keeps self's value
ConfigSet_Merge(self, cfg2) ==
    [f \in ConfigFields |->
        IF cfg2[f] \in {default, None} THEN self[f] ELSE cfg2[f]]

\* Config.set(self, cfg): five assignments, one per field
ConfigSet(self, cfg2) ==
    [self EXCEPT
        !.session_per_request_conn = cfg2.session_per_request_conn,
        !.session_user_agent = cfg2.session_user_agent,
        !.cache_proxy_url = cfg2.cache_proxy_url,
        !.cache_auth_key = cfg2.cache_auth_key,
        !.cache_duration = cfg2.cache_duration]

\* ------------------------------------------------------------- http.py: UserAgent
\* UserAgent.none()
UserAgent_none == SKIP_HEADER

\* UserAgent.default()
UserAgent_default == DefaultUserAgentString

\* calling a user agent function fn whose rotation stands at position st
CallUserAgent(fn, st) ==
    CASE fn = "UserAgent.none" -> UserAgent_none
      [] fn = "UserAgent.default" -> UserAgent_default
      [] fn = RotatingUA -> RotatingValues[st + 1]

\* the rotation moves on by one with every call of the rotating function
AdvanceUA(fn, st) == IF fn = RotatingUA THEN (st + 1) % Len(RotatingValues) ELSE st

\* ------------------------------------------------------------- http.py: sessions
\* requests.Session.__init__, reached through super().__init__()
SessionInit ==
    [kind |-> "Session",
     verify |-> TRUE,
     headers |-> [h \in HeaderNames |->
                    CASE h = "User-Agent" -> DefaultUserAgentString
                      [] h = "Connection" -> "keep-alive"
                      [] OTHER -> Absent],
     proxies |-> [s \in Schemes |-> Absent],
     adapters |-> [s \in Schemes |-> "HTTPAdapter"],
     per_request_conn |-> None,
     user_agent |-> None]

\* the resolution with the configuration store taking precedence over the argument
ResolvePerRequestConn_CfgFirst(arg, c) ==
    IF c.session_per_request_conn # default THEN c.session_per_request_conn
    ELSE IF arg = None THEN PyFalse ELSE arg

\* RequestsSession.__init__: per_request_conn
ResolvePerRequestConn(arg, c) ==
    IF arg = None
    THEN IF c.session_per_request_conn = default
         THEN PyFalse
         ELSE c.session_per_request_conn
    ELSE arg

\* RequestsSession.__init__: user_agent
ResolveUserAgent(arg, c) ==
    IF arg = None
    THEN IF c.session_user_agent = default
         THEN "UserAgent.default"
         ELSE c.session_user_agent
    ELSE arg

\* the constructor with the per-request adapter mounted for https:// only
RequestsSessionInit_HttpsOnly(per_request_conn, user_agent, c) ==
    LET prc == ResolvePerRequestConn(per_request_conn, c)
        ua == ResolveUserAgent(user_agent, c)
        s == [SessionInit EXCEPT !.kind = "RequestsSession", !.verify = FALSE,
                                 !.per_request_conn = prc, !.user_agent = ua]
    IN  IF prc = PyTrue
        THEN [s EXCEPT !.adapters["https"] = "PerRequestAdapter",
                       !.headers["Connection"] = None]
        ELSE s

\* the constructor without the assignment self.verify = False
RequestsSessionInit_Verifying(per_request_conn, user_agent, c) ==
    LET prc == ResolvePerRequestConn(per_request_conn, c)
        ua == ResolveUserAgent(user_agent, c)
        s == [SessionInit EXCEPT !.kind = "RequestsSession",
                                 !.per_request_conn = prc, !.user_agent = ua]
    IN  IF prc = PyTrue
        THEN [s EXCEPT !.adapters = [x \in Schemes |-> "PerRequestAdapter"],
                       !.headers["Connection"] = None]
        ELSE s

\* RequestsSession.__init__
RequestsSessionInit(per_request_conn, user_agent, c) ==
    LET prc == ResolvePerRequestConn(per_request_conn, c)
        ua == ResolveUserAgent(user_agent, c)
        s == [SessionInit EXCEPT !.kind = "RequestsSession", !.verify = FALSE,
                                 !.per_request_conn = prc, !.user_agent = ua]
    IN  IF prc = PyTrue
        THEN [s EXCEPT !.adapters = [x \in Schemes |-> "PerRequestAdapter"],
                       !.headers["Connection"] = None]
        ELSE s

\* the three ValueError messages of CacheProxySession.__init__
ErrProxyURL ==
    "proxy_url is None and sploitcfg.cache_proxy_url is None too, at least one must be set"
ErrAuthKey ==
    "auth_key is None and sploitcfg.cache_auth_key is None too, at least one must be set"
ErrDuration ==
    "duration is None and sploitcfg.cache_duration is None too, at least one must be set"

\* the constructor parameters an error message names
NamedIn(msg) ==
    CASE msg = ErrProxyURL -> {"proxy_url"}
      [] msg = ErrAuthKey -> {"auth_key"}
      [] msg = ErrDuration -> {"duration"}
      [] OTHER -> {}

\* the cache session with the configuration store taking precedence over the arguments
CacheProxySessionInit_CfgFirst(proxy_url, auth_key, duration, c) ==
    LET p == IF c.cache_proxy_url # None THEN c.cache_proxy_url ELSE proxy_url
        k == IF c.cache_auth_key # None THEN c.cache_auth_key ELSE auth_key
        d == IF c.cache_duration # None THEN c.cache_duration ELSE duration
    IN  IF p = None THEN [error |-> ErrProxyURL, session |-> None]
        ELSE IF k = None THEN [error |-> ErrAuthKey, session |-> None]
        ELSE IF d = None THEN [error |-> ErrDuration, session |-> None]
        ELSE [error |-> None,
              session |-> [SessionInit EXCEPT
                  !.kind = "CacheProxySession",
                  !.headers = [h \in HeaderNames |->
                                 CASE h = "X-Cache-Auth-Key" -> k
                                   [] h = "X-Cache-Duration" -> d
                                   [] OTHER -> Absent],
                  !.proxies = [s \in Schemes |-> p],
                  !.verify = FALSE]]

\* the cache session that checks duration first, then auth_key, then proxy_url
CacheProxySessionInit_Reversed(proxy_url, auth_key, duration, c) ==
    LET p == IF proxy_url = None THEN c.cache_proxy_url ELSE proxy_url
        k == IF auth_key = None THEN c.cache_auth_key ELSE auth_key
        d == IF duration = None THEN c.cache_duration ELSE duration
    IN  IF d = None THEN [error |-> ErrDuration, session |-> None]
        ELSE IF k = None THEN [error |-> ErrAuthKey, session |-> None]
        ELSE IF p = None THEN [error |-> ErrProxyURL, session |-> None]
        ELSE [error |-> None,
              session |-> [SessionInit EXCEPT
                  !.kind = "CacheProxySession",
                  !.headers = [h \in HeaderNames |->
                                 CASE h = "X-Cache-Auth-Key" -> k
                                   [] h = "X-Cache-Duration" -> d
                                   [] OTHER -> Absent],
                  !.proxies = [s \in Schemes |-> p],
                  !.verify = FALSE]]

\* CacheProxySession.__init__: the first value that resolves to nothing raises;
\* otherwise headers and proxies are replaced and verification is switched off
CacheProxySessionInit(proxy_url, auth_key, duration, c) ==
    IF proxy_url = None /\ c.cache_proxy_url = None
    THEN [error |-> ErrProxyURL, session |-> None]
    ELSE LET p == IF proxy_url = None THEN c.cache_proxy_url ELSE proxy_url
         IN
    IF auth_key = None /\ c.cache_auth_key = None
    THEN [error |-> ErrAuthKey, session |-> None]
    ELSE LET k == IF auth_key = None THEN c.cache_auth_key ELSE auth_key
         IN
    IF duration = None /\ c.cache_duration = None
    THEN [error |-> ErrDuration, session |-> None]
    ELSE LET d == IF duration = None THEN c.cache_duration ELSE duration
         IN
    [error |-> None,
     session |-> [SessionInit EXCEPT
         !.kind = "CacheProxySession",
         !.headers = [h \in HeaderNames |->
                        CASE h = "X-Cache-Auth-Key" -> k
                          [] h = "X-Cache-Duration" -> d
                          [] OTHER -> Absent],
         !.proxies = [s \in Schemes |-> p],
         !.verify = FALSE]]

\* ------------------------------------------------------------- http.py: pools
\* PerRequestAdapter.init_poolmanager: pool_classes_by_scheme
PerRequestPoolClass(scheme) ==
    IF scheme = "http" THEN "PerRequestHTTPPool" ELSE "PerRequestHTTPSPool"

\* the pool classes of an unmodified HTTPAdapter and of every proxy manager
StandardPoolClass(scheme) ==
    IF scheme = "http" THEN "HTTPConnectionPool" ELSE "HTTPSConnectionPool"

\* The class of the pool that serves a request of session s: the mounted adapter's
\* pool manager for a direct request; a proxied request goes to a proxy manager,
\* which the adapter override does not touch ("doesn't work with proxies").
PoolClassFor(s, scheme, proxy) ==
    IF proxy # Absent
    THEN StandardPoolClass(scheme)
    ELSE IF s.adapters[scheme] = "PerRequestAdapter"
         THEN PerRequestPoolClass(scheme)
         ELSE StandardPoolClass(scheme)

\* _put_conn that hands the connection back to the pool, still open
PerRequestHTTPPool_put_conn_Keep(cs, c) ==
    IF c # 0 THEN [cs EXCEPT ![c].state = "idle"] ELSE cs

\* PerRequestHTTPPool._put_conn: close the connection if there is one; nothing is
\* put back into the pool
PerRequestHTTPPool_put_conn(cs, c) ==
    IF c # 0 THEN [cs EXCEPT ![c].state = "closed"] ELSE cs

\* the https:// _put_conn that hands the connection back to the pool, still open
PerRequestHTTPSPool_put_conn_Keep(cs, c) ==
    IF c # 0 THEN [cs EXCEPT ![c].state = "idle"] ELSE cs

\* PerRequestHTTPSPool._put_conn: the same, for the https:// pool
PerRequestHTTPSPool_put_conn(cs, c) ==
    IF c # 0 THEN [cs EXCEPT ![c].state = "closed"] ELSE cs

\* the inherited _put_conn of the standard pools: the open connection goes back
\* into the pool for the next request
Standard_put_conn(cs, c) ==
    IF c # 0 THEN [cs EXCEPT ![c].state = "idle"] ELSE cs

\* _put_conn of the pool class cls
PutConn(cls, cs, c) ==
    CASE cls = "PerRequestHTTPPool" -> PerRequestHTTPPool_put_conn(cs, c)
      [] cls = "PerRequestHTTPSPool" -> PerRequestHTTPSPool_put_conn(cs, c)
      [] OTHER -> Standard_put_conn(cs, c)

\* the connections of cs that are still open
Live(cs) == [c \in {x \in DOMAIN cs : cs[x].state # "closed"} |-> cs[c]]

\* cs with connection c, newly opened by a pool of class cls and checked out
Opened(cs, c, i, scheme, proxied, cls) ==
    [x \in DOMAIN cs \cup {c} |->
        IF x = c
        THEN [sess |-> i, scheme |-> scheme, proxied |-> proxied, pool |-> cls,
              state |-> "held"]
        ELSE cs[x]]

\* the connections waiting in the pool of (session i, scheme, proxied or not)
IdleIn(cs, i, scheme, proxied) ==
    {c \in DOMAIN cs :
        /\ cs[c].sess = i /\ cs[c].scheme = scheme /\ cs[c].proxied = proxied
        /\ cs[c].state = "idle"}

\* ------------------------------------------------------------- http.py: requests
\* the headers as they go out: the request's over the session's, a None value
\* removes the header, and SKIP_HEADER makes the client leave it out
OutgoingHeaders(reqHeaders, s) ==
    [h \in HeaderNames |->
        LET v == IF reqHeaders[h] # Absent THEN reqHeaders[h] ELSE s.headers[h]
        IN  IF v \in {None, SKIP_HEADER} THEN Absent ELSE v]

\* prepare_request that leaves a User-Agent the caller has set
RequestsSession_prepare_request_KeepCaller(s, reqHeaders, st) ==
    [headers |-> IF reqHeaders["User-Agent"] = Absent
                 THEN [reqHeaders EXCEPT !["User-Agent"] = CallUserAgent(s.user_agent, st)]
                 ELSE reqHeaders,
     returned |-> <<CallUserAgent(s.user_agent, st)>>,
     st |-> AdvanceUA(s.user_agent, st)]

\* RequestsSession.prepare_request: one call of self.user_agent, its value stored
\* under "User-Agent" of the request's headers
RequestsSession_prepare_request(s, reqHeaders, st) ==
    [headers |-> [reqHeaders EXCEPT !["User-Agent"] = CallUserAgent(s.user_agent, st)],
     returned |-> <<CallUserAgent(s.user_agent, st)>>,
     st |-> AdvanceUA(s.user_agent, st)]

\* prepare_request of a session of either class; CacheProxySession inherits it
PrepareRequest(s, reqHeaders, st) ==
    IF s.kind = "RequestsSession"
    THEN RequestsSession_prepare_request(s, reqHeaders, st)
    ELSE [headers |-> reqHeaders, returned |-> <<>>, st |-> st]

Outcomes == {"ok", "http-error", "transport-exception"}

\* ------------------------------------------------------------- state machine
Init ==
    /\ cfg = [n \in Instances |-> ConfigNew]
    /\ sessions = <<>>
    /\ conns = [c \in {} |-> None]
    /\ opened = 0
    /\ uaState = 0
    /\ result = [op |-> "import"]

\* inst.<field> = v
AssignField(inst, f, v) ==
    /\ cfg' = [cfg EXCEPT ![inst][f] = v]
    /\ result' = [op |-> "assign", target |-> inst]
    /\ UNCHANGED <<sessions, conns, opened, uaState>>

\* target.set(source)
SetConfig(target, source) ==
    /\ cfg' = [cfg EXCEPT ![target] = ConfigSet(cfg[target], cfg[source])]
    /\ result' = [op |-> "set", target |-> target, source |-> source,
                  self_before |-> cfg[target], cfg_before |-> cfg[source]]
    /\ UNCHANGED <<sessions, conns, opened, uaState>>

\* RequestsSession(per_request_conn=..., user_agent=...)
NewRequestsSession(per_request_conn, user_agent) ==
    /\ Len(sessions) < MaxSessions
    /\ sessions' = Append(sessions,
                          RequestsSessionInit(per_request_conn, user_agent, cfg["sploitcfg"]))
    /\ result' = [op |-> "RequestsSession",
                  args |-> [per_request_conn |-> per_request_conn,
                            user_agent |-> user_agent],
                  error |-> None, session |-> Len(sessions) + 1]
    /\ UNCHANGED <<cfg, conns, opened, uaState>>

\* CacheProxySession.__init__ that also stores what it resolved in sploitcfg
NewCacheProxySession_WriteBack(proxy_url, auth_key, duration) ==
    LET r == CacheProxySessionInit(proxy_url, auth_key, duration, cfg["sploitcfg"])
        args == [proxy_url |-> proxy_url, auth_key |-> auth_key, duration |-> duration]
    IN  /\ r.error = None
        /\ Len(sessions) < MaxSessions
        /\ sessions' = Append(sessions, r.session)
        /\ result' = [op |-> "CacheProxySession", args |-> args,
                      error |-> None, session |-> Len(sessions) + 1]
        /\ cfg' = [cfg EXCEPT !["sploitcfg"].cache_proxy_url = r.session.proxies["http"],
                              !["sploitcfg"].cache_auth_key = r.session.headers["X-Cache-Auth-Key"],
                              !["sploitcfg"].cache_duration = r.session.headers["X-Cache-Duration"]]
        /\ UNCHANGED <<conns, opened, uaState>>

\* CacheProxySession(proxy_url=..., auth_key=..., duration=...)
NewCacheProxySession(proxy_url, auth_key, duration) ==
    LET r == CacheProxySessionInit(proxy_url, auth_key, duration, cfg["sploitcfg"])
        args == [proxy_url |-> proxy_url, auth_key |-> auth_key, duration |-> duration]
    IN  /\ r.error = None => Len(sessions) < MaxSessions
        /\ IF r.error = None
           THEN /\ sessions' = Append(sessions, r.session)
                /\ result' = [op |-> "CacheProxySession", args |-> args,
                              error |-> None, session |-> Len(sessions) + 1]
           ELSE /\ sessions' = sessions
                /\ result' = [op |-> "CacheProxySession", args |-> args,
                              error |-> r.error, session |-> 0]
        /\ UNCHANGED <<cfg, conns, opened, uaState>>

\* session.request(...) on session i: the request is prepared, a connection is taken
\* from the pool that serves it (a waiting one, else a new one), the exchange ends
\* with `outcome`, and the connection is released.  A transport exception makes
\* the client close the connection and release nothing (_put_conn(None)).
\* Otherwise the connection is released through _put_conn once the body has been
\* read, which is before the call returns unless the caller asked for stream=True.
\* prevConn is the connection of the request just before this one if the same
\* pool served it, else 0.
Request(i, scheme, callerUA, stream, reqProxy, outcome) ==
    /\ i \in 1..Len(sessions)
    /\ LET s == sessions[i]
           prep == PrepareRequest(s,
                       [h \in HeaderNames |-> IF h = "User-Agent" THEN callerUA ELSE Absent],
                       uaState)
           proxy == IF reqProxy # Absent THEN reqProxy ELSE s.proxies[scheme]
           cls == PoolClassFor(s, scheme, proxy)
           idle == IdleIn(conns, i, scheme, proxy # Absent)
           prevConn == IF /\ result.op = "request"
                          /\ result.sess = i /\ result.scheme = scheme
                          /\ (result.proxy # Absent) = (proxy # Absent)
                       THEN result.conn
                       ELSE 0
       IN  /\ idle = {} => opened < MaxConns
           /\ \E c \in (IF idle = {} THEN {opened + 1} ELSE idle) :
                LET fresh == c \notin idle
                    got == IF fresh
                           THEN Opened(conns, c, i, scheme, proxy # Absent, cls)
                           ELSE [conns EXCEPT ![c].state = "held"]
                    after == IF outcome = "transport-exception"
                             THEN PutConn(cls, [got EXCEPT ![c].state = "closed"], 0)
                             ELSE IF stream THEN got
                             ELSE PutConn(cls, got, c)
                IN  /\ conns' = Live(after)
                    /\ opened' = IF fresh THEN c ELSE opened
                    /\ result' = [op |-> "request", sess |-> i, scheme |-> scheme,
                                  headers |-> OutgoingHeaders(prep.headers, s),
                                  proxy |-> proxy, verify |-> s.verify,
                                  conn |-> c, fresh |-> fresh, pool |-> cls,
                                  connState |-> after[c].state,
                                  stream |-> stream, outcome |-> outcome,
                                  callerUA |-> callerUA, uaReturned |-> prep.returned,
                                  prevConn |-> prevConn]
           /\ uaState' = prep.st
    /\ UNCHANGED <<cfg, sessions>>

\* the caller reads a streamed response to its end, or closes it: the connection it
\* holds is released through _put_conn of its pool
ConsumeResponse(c) ==
    /\ c \in DOMAIN conns
    /\ conns[c].state = "held"
    /\ LET after == PutConn(conns[c].pool, conns, c)
       IN  /\ conns' = Live(after)
           /\ result' = [op |-> "consume", conn |-> c, pool |-> conns[c].pool,
                         connState |-> after[c].state]
    /\ UNCHANGED <<cfg, sessions, opened, uaState>>

CallerUAs == {Absent, "caller-agent/1"}
RequestProxies == {Absent, "http://upstream:3128"}

\* Config(...) instances an application builds at startup and hands to sploitcfg.set
StartupConfigs ==
    {ConfigNew,
     [ConfigNew EXCEPT !.session_per_request_conn = PyFalse,
                       !.session_user_agent = "UserAgent.none"],
     [session_per_request_conn |-> PyTrue,
      session_user_agent |-> RotatingUA,
      cache_proxy_url |-> "http://cfg-cache:8080",
      cache_auth_key |-> "cfg-key",
      cache_duration |-> "10s"]}

\* target.set(Config(...)): the source is a temporary the caller builds in place
SetConfigFrom(target, c) ==
    /\ cfg' = [cfg EXCEPT ![target] = ConfigSet(cfg[target], c)]
    /\ result' = [op |-> "set", target |-> target, source |-> "<temporary>",
                  self_before |-> cfg[target], cfg_before |-> c]
    /\ UNCHANGED <<sessions, conns, opened, uaState>>

BaseFields == {"session_per_request_conn", "session_user_agent"}
CacheFields == {"cache_proxy_url", "cache_auth_key", "cache_duration"}

\* both session classes; the configuration is replaced wholesale through set
Next ==
    \/ \E c \in StartupConfigs : SetConfigFrom("sploitcfg", c)
    \/ \E p \in ArgPerRequestConn, u \in ArgUserAgent : NewRequestsSession(p, u)
    \/ \E p \in ArgProxyURL, k \in ArgAuthKey, d \in ArgDuration :
           NewCacheProxySession(p, k, d)
    \/ \E i \in 1..MaxSessions, sch \in Schemes : Request(i, sch, Absent, FALSE, Absent, "ok")

Spec == Init /\ [][Next]_vars

\* base sessions; every value of the two session fields of sploitcfg
NextBase ==
    \/ \E f \in BaseFields : \E v \in CfgFieldValues(f) : AssignField("sploitcfg", f, v)
    \/ \E p \in ArgPerRequestConn, u \in ArgUserAgent : NewRequestsSession(p, u)
    \/ \E i \in 1..MaxSessions, sch \in Schemes, ua \in CallerUAs :
           Request(i, sch, ua, FALSE, Absent, "ok")

SpecBase == Init /\ [][NextBase]_vars

\* cache-proxy sessions; every value of the three cache fields of sploitcfg
NextCache ==
    \/ \E f \in CacheFields : \E v \in CfgFieldValues(f) : AssignField("sploitcfg", f, v)
    \/ \E p \in ArgProxyURL, k \in ArgAuthKey, d \in ArgDuration :
           NewCacheProxySession(p, k, d)
    \/ \E i \in 1..MaxSessions, sch \in Schemes : Request(i, sch, Absent, FALSE, Absent, "ok")

SpecCache == Init /\ [][NextCache]_vars

\* two configuration instances, assigned to and copied into one another
NextCfg ==
    \/ \E n \in Instances, f \in ConfigFields : \E v \in CfgFieldValues(f) :
           AssignField(n, f, v)
    \/ \E c \in Instances, o \in Instances : SetConfig(c, o)

SpecCfg == Init /\ [][NextCfg]_vars

\* base sessions under the default configuration: streamed and proxied requests
NextConn ==
    \/ \E p \in ArgPerRequestConn : NewRequestsSession(p, None)
    \/ \E i \in 1..MaxSessions, sch \in Schemes, st \in BOOLEAN,
          px \in RequestProxies, o \in Outcomes :
           Request(i, sch, Absent, st, px, o)
    \/ \E c \in 1..MaxConns : ConsumeResponse(c)

SpecConn == Init /\ [][NextConn]_vars

\* ------------------------------------------------------------- properties
CtorParams == {"proxy_url", "auth_key", "duration"}

CfgFieldOf(param) ==
    CASE param = "proxy_url" -> "cache_proxy_url"
      [] param = "auth_key" -> "cache_auth_key"
      [] param = "duration" -> "cache_duration"

\* the parameters of a CacheProxySession call that resolve to nothing
Missing(args, c) == {q \in CtorParams : args[q] = None /\ c[CfgFieldOf(q)] = None}

\* the first of a set of parameters in the order the constructor takes them
FirstParam(m) ==
    IF "proxy_url" \in m THEN "proxy_url"
    ELSE IF "auth_key" \in m THEN "auth_key" ELSE "duration"

JustConstructedCache == result.op = "CacheProxySession"
JustConstructedBase == result.op = "RequestsSession"
JustRequested == result.op = "request"

PerRequestPools == {"PerRequestHTTPPool", "PerRequestHTTPSPool"}

\* C1 as stated: a CacheProxySession call in which some of proxy_url, auth_key and
\* duration resolve to nothing fails with an error that names every one of them.
C1_ErrorNamesEveryMissing ==
    JustConstructedCache =>
        LET m == Missing(result.args, cfg["sploitcfg"])
        IN  m # {} => result.error # None /\ NamedIn(result.error) = m

\* C1 as amended: such a call fails, constructs no session, and its error names
\* exactly one parameter: the first that resolves to nothing, in the order
\* proxy_url, auth_key, duration.  A call in which all three resolve succeeds.
C1_ErrorNamesFirstMissing ==
    JustConstructedCache =>
        LET m == Missing(result.args, cfg["sploitcfg"])
        IN  /\ m # {} => /\ result.error # None
                         /\ result.session = 0
                         /\ NamedIn(result.error) = {FirstParam(m)}
            /\ m = {} => result.error = None

C1_Witness ==
    /\ JustConstructedCache
    /\ Missing(result.args, cfg["sploitcfg"]) = CtorParams
    /\ result.error = ErrProxyURL

\* C2: on a base session in per-request mode, a request that goes through no proxy
\* gets a connection no request has used, never the one of the request before it on
\* the same pool; that connection is closed when the request completes; and the
\* pool never holds an open connection waiting for reuse: the only open connections
\* are those of streamed responses the caller has not finished with.
C2_NoConnectionReuse ==
    /\ \A c \in DOMAIN conns :
          (sessions[conns[c].sess].per_request_conn = PyTrue /\ ~conns[c].proxied)
              => conns[c].state = "held"
    /\ (JustRequested /\ sessions[result.sess].per_request_conn = PyTrue
                      /\ result.proxy = Absent)
          => /\ result.fresh
             /\ result.pool \in PerRequestPools
             /\ ~result.stream => result.connState = "closed"
             /\ result.prevConn # result.conn
    /\ (result.op = "consume" /\ result.pool \in PerRequestPools)
          => result.connState = "closed"

C2_Witness ==
    /\ JustRequested
    /\ sessions[result.sess].per_request_conn = PyTrue
    /\ result.proxy = Absent /\ ~result.stream
    /\ result.prevConn = 1 /\ result.conn = 2
    /\ result.connState = "closed"
    /\ DOMAIN conns = {}

\* C3 as stated: in per-request mode every request returns with its connection
\* closed, whichever way it ended.  Read in the claim's favour, a streamed response
\* is left out: its request is over only when the caller has read the body.
C3_ClosedOnReturn ==
    (JustRequested /\ sessions[result.sess].per_request_conn = PyTrue
                   /\ ~result.stream)
        => result.connState = "closed"

\* C3 as amended: in per-request mode a request that goes through no proxy and
\* does not ask for a streamed response returns with its connection closed after a
\* successful response, an HTTP error status and a transport exception alike; a
\* streamed response keeps its connection until the caller has read or closed it,
\* and it is closed then; neither is ever handed back to the pool.
C3_ClosedOnReturnDirect ==
    /\ (JustRequested /\ sessions[result.sess].per_request_conn = PyTrue
                      /\ result.proxy = Absent)
          => /\ (~result.stream \/ result.outcome = "transport-exception")
                    => result.connState = "closed"
             /\ result.connState # "idle"
    /\ (result.op = "consume" /\ result.pool \in PerRequestPools)
          => result.connState = "closed"

C3_Witness ==
    /\ JustRequested
    /\ sessions[result.sess].per_request_conn = PyTrue
    /\ result.proxy = Absent /\ ~result.stream
    /\ result.outcome = "http-error"
    /\ result.scheme = "https"
    /\ result.connState = "closed"

\* C4: a base session's per_request_conn and user_agent are the explicit argument
\* when one is given, else the configuration value when the field is not the
\* default marker, else False and UserAgent.default.
C4_Resolution ==
    JustConstructedBase =>
        LET s == sessions[result.session]
            a == result.args
            c == cfg["sploitcfg"]
        IN  /\ a.per_request_conn # None => s.per_request_conn = a.per_request_conn
            /\ (a.per_request_conn = None /\ c.session_per_request_conn # default)
                  => s.per_request_conn = c.session_per_request_conn
            /\ (a.per_request_conn = None /\ c.session_per_request_conn = default)
                  => s.per_request_conn = PyFalse
            /\ a.user_agent # None => s.user_agent = a.user_agent
            /\ (a.user_agent = None /\ c.session_user_agent # default)
                  => s.user_agent = c.session_user_agent
            /\ (a.user_agent = None /\ c.session_user_agent = default)
                  => s.user_agent = "UserAgent.default"

C4_Witness ==
    /\ JustConstructedBase
    /\ result.args.per_request_conn = PyFalse
    /\ cfg["sploitcfg"].session_per_request_conn = PyTrue
    /\ sessions[result.session].per_request_conn = PyFalse
    /\ result.args.user_agent = None
    /\ cfg["sploitcfg"].session_user_agent = "UserAgent.none"

\* C5: after c.set(o) each of the five fields of c is what o's field was, o is as it
\* was, and a second c.set(o) would change nothing.
C5_SetOverwrites ==
    (result.op = "set" /\ result.source \in Instances) =>
        /\ \A f \in ConfigFields : cfg[result.target][f] = result.cfg_before[f]
        /\ cfg[result.source] = result.cfg_before
        /\ ConfigSet(cfg[result.target], cfg[result.source]) = cfg[result.target]

C5_Witness ==
    /\ result.op = "set"
    /\ result.target = "sploitcfg" /\ result.source = "other"
    /\ result.self_before.session_per_request_conn = PyTrue
    /\ result.self_before.cache_proxy_url # None
    /\ result.cfg_before.session_per_request_conn = default
    /\ result.cfg_before.cache_proxy_url = None
    /\ result.cfg_before.cache_auth_key # None
    /\ cfg["sploitcfg"] = cfg["other"]

\* C6: a request of a base session calls the session's user agent function once,
\* and the User-Agent that goes out is the value of that call, whatever the caller
\* had put there; it is left out when the value is SKIP_HEADER.
C6_UserAgentPerRequest ==
    [][(result'.op = "request" /\ sessions[result'.sess].kind = "RequestsSession") =>
          LET fn == sessions[result'.sess].user_agent
              v == CallUserAgent(fn, uaState)
          IN  /\ result'.uaReturned = <<v>>
              /\ uaState' = AdvanceUA(fn, uaState)
              /\ result'.headers["User-Agent"] = IF v = SKIP_HEADER THEN Absent ELSE v
      ]_vars

C6_Witness ==
    /\ JustRequested
    /\ sessions[result.sess].user_agent = RotatingUA
    /\ result.callerUA # Absent
    /\ result.uaReturned = <<SKIP_HEADER>>
    /\ result.headers["User-Agent"] = Absent

\* C7: a CacheProxySession call whose three values resolve succeeds, with the
\* explicit argument taken before the configuration field; every request of the
\* session, http:// and https://, goes through that proxy URL and carries that
\* auth key and duration.
C7_CacheProxyRouting ==
    /\ JustConstructedCache =>
          LET a == result.args
              c == cfg["sploitcfg"]
              p == IF a.proxy_url # None THEN a.proxy_url ELSE c.cache_proxy_url
              k == IF a.auth_key # None THEN a.auth_key ELSE c.cache_auth_key
              d == IF a.duration # None THEN a.duration ELSE c.cache_duration
          IN  (p # None /\ k # None /\ d # None) =>
                 /\ result.error = None
                 /\ sessions[result.session].proxies = [s \in Schemes |-> p]
                 /\ sessions[result.session].headers["X-Cache-Auth-Key"] = k
                 /\ sessions[result.session].headers["X-Cache-Duration"] = d
    /\ (JustRequested /\ sessions[result.sess].kind = "CacheProxySession") =>
          LET s == sessions[result.sess]
          IN  /\ result.proxy = s.proxies[result.scheme]
              /\ result.proxy \notin {None, Absent}
              /\ result.headers["X-Cache-Auth-Key"] = s.headers["X-Cache-Auth-Key"]
              /\ result.headers["X-Cache-Auth-Key"] \notin {None, Absent}
              /\ result.headers["X-Cache-Duration"] = s.headers["X-Cache-Duration"]
              /\ result.headers["X-Cache-Duration"] \notin {None, Absent}

C7_Witness ==
    /\ JustRequested
    /\ result.scheme = "https"
    /\ result.proxy = "http://cache:8080"
    /\ result.headers["X-Cache-Auth-Key"] = "k1"
    /\ result.headers["X-Cache-Duration"] = "10s"
    /\ cfg["sploitcfg"].cache_proxy_url = "http://cfg-cache:8080"

\* C8: every session of either class has certificate verification off, and every
\* request goes out with it off.
C8_VerifyDisabled ==
    /\ \A i \in 1..Len(sessions) : sessions[i].verify = FALSE
    /\ JustRequested => result.verify = FALSE

C8_Witness ==
    /\ JustRequested
    /\ sessions[result.sess].kind = "RequestsSession"
    /\ sessions[result.sess].per_request_conn = PyTrue
    /\ result.verify = FALSE

\* C9: a base session has the per-request adapter on http:// and https:// and its
\* Connection header forced to None exactly when per_request_conn resolved to
\* True; when it resolved to False both schemes keep the stock adapter and
\* Connection stays keep-alive.
C9_MountIffPerRequest ==
    \A i \in 1..Len(sessions) :
        sessions[i].kind = "RequestsSession" =>
            /\ sessions[i].per_request_conn \in {PyTrue, PyFalse}
            /\ sessions[i].per_request_conn = PyTrue =>
                  /\ \A sch \in Schemes : sessions[i].adapters[sch] = "PerRequestAdapter"
                  /\ sessions[i].headers["Connection"] = None
            /\ sessions[i].per_request_conn = PyFalse =>
                  /\ \A sch \in Schemes : sessions[i].adapters[sch] = "HTTPAdapter"
                  /\ sessions[i].headers["Connection"] = "keep-alive"

C9_Witness ==
    /\ JustRequested
    /\ sessions[result.sess].per_request_conn = PyFalse
    /\ result.headers["Connection"] = "keep-alive"
    /\ result.prevConn = result.conn
    /\ ~result.fresh

\* C10: no step changes a session that exists, whatever happens to the
\* configuration afterwards, and no constructor call changes the configuration.
C10_ConfigReadAtConstruction ==
    [][/\ \A i \in 1..Len(sessions) :
             i <= Len(sessions') /\ sessions'[i] = sessions[i]
       /\ result'.op \in {"RequestsSession", "CacheProxySession"} => cfg' = cfg
      ]_vars

C10_Witness ==
    /\ result.op = "set"
    /\ Len(sessions) >= 1
    /\ sessions[1].kind = "CacheProxySession"
    /\ sessions[1].proxies["http"] = "http://cfg-cache:8080"
    /\ cfg["sploitcfg"].cache_proxy_url = None
    /\ cfg["sploitcfg"].session_per_request_conn = PyFalse

=============================================================================
